---- MODULE Spec2Model ----
(***************************************************************************)
(* State-machine model of instagram_content_downloader.py: the login, the  *)
(* two batch drivers (download_posts, download_posts_sorted_by_likes), the *)
(* per-post download with its custom metadata file, and the aggregation of *)
(* the metadata files into metadata.csv.                                   *)
(*                                                                         *)
(* The Instagram client (Instaloader) is external: its login, profile      *)
(* lookup and media download are nondeterministic outcomes (success or a   *)
(* raised exception).  Python values are tagged records, so that None, a   *)
(* string and an integer stay distinct values; file and directory names    *)
(* are sequences of characters, so that startswith/endswith are computed.  *)
(***************************************************************************)
EXTENDS Integers, Sequences, FiniteSets, TLC

VARIABLES
    pc,                    \* position of the script: see PcValues
    err,                   \* the exception that ended the run, or "none"
    posts,                 \* what profile.get_posts() yields, in native order
    limit,                 \* the limit argument: PyNone or IntV(n)
    mode,                  \* which driver __main__ calls
    reverse,               \* the reverse argument of the sorted driver
    save_custom_metadata,  \* the constructor flag
    idx,                   \* enumerate() index of the driver's loop (0-based)
    queue,                 \* the sorted, sliced list of the sorted driver
    disk,                  \* working directory: entries in listdir order
    csv,                   \* metadata.csv: NoFile or its header and rows
    table,                 \* the DataFrame the aggregator returned, or NoTable
    attempted,             \* shortcodes handed to the external download, in order
    downloaded,            \* shortcodes whose external download succeeded, in order
    loggedIn,              \* the external client accepted the login
    loginCalls,            \* calls of the client's login
    twoFactorCalls,        \* calls of the client's two_factor_login
    profileFetches,        \* calls of Profile.from_username
    aggCalls,              \* calls of convert_all_custom_metadata_to_csv
    csv0                   \* metadata.csv as it was when the run started

vars == <<pc, err, posts, limit, mode, reverse, save_custom_metadata, idx, queue,
          disk, csv, table, attempted, downloaded, loggedIn, loginCalls,
          twoFactorCalls, profileFetches, aggCalls, csv0>>

(***************************************************************************)
(* Bounds of the model.                                                    *)
(***************************************************************************)
MaxPosts == 4
MaxLikes == 2
MaxLimit == 2
MaxDirs == 2
MaxFiles == 3

(***************************************************************************)
(* Python values.                                                          *)
(***************************************************************************)
PyNone == [t |-> "none"]
StrV(s) == [t |-> "str", s |-> s]
IntV(n) == [t |-> "int", n |-> n]
BoolV(b) == [t |-> "bool", b |-> b]
ListV(xs) == [t |-> "list", xs |-> xs]

\* str(x): the text of None is "None"; a string is itself.
PyStr(x) == IF x = PyNone THEN StrV("None") ELSE x

\* Truth value of an int-or-None argument: None and 0 are falsy.
Truthy(x) == x # PyNone /\ x.n # 0

(***************************************************************************)
(* Names: sequences of characters.                                         *)
(***************************************************************************)
Digits == <<"0", "1", "2", "3", "4", "5", "6", "7", "8", "9">>
Digit(i) == Digits[(i % 10) + 1]

StartsWith(s, pre) == Len(s) >= Len(pre) /\ SubSeq(s, 1, Len(pre)) = pre
EndsWith(s, suf) == Len(s) >= Len(suf) /\ SubSeq(s, Len(s) - Len(suf) + 1, Len(s)) = suf

UTC_SUFFIX == <<"_", "U", "T", "C">>
JSON_SUFFIX == <<".", "j", "s", "o", "n">>
CUSTOM_METADATA == <<"c", "u", "s", "t", "o", "m", "_", "m", "e", "t", "a", "d", "a", "t", "a">>
TARGET_USERNAME == <<"t">>

\* post.date_utc.strftime("%Y-%m-%d_%H-%M-%S"): an injective text of the date.
strftime(d) == <<"D", Digit(d)>>

\* dirname_pattern = "{target}_{date_utc}_UTC", formatted.
dirname_pattern(target, date_utc) == target \o <<"_">> \o date_utc \o UTC_SUFFIX

\* post.shortcode as text.
ShortcodeText(sc) == <<"S", Digit(sc)>>

(***************************************************************************)
(* Posts.  shortcode is the post's position in the profile's native        *)
(* sequence, which makes it unique; date_utc is an integer date.           *)
(***************************************************************************)
\* The client's Post: video_view_count and video_duration are None unless
\* the post is a video.
Post(sc, likes, date, caption, tags, pinned, video) ==
    [shortcode |-> sc, likes |-> likes, date_utc |-> date, caption |-> caption,
     caption_hashtags |-> tags, caption_mentions |-> <<>>,
     owner_username |-> "owner", tagged_users |-> <<>>, is_pinned |-> pinned,
     is_video |-> video,
     video_view_count |-> IF video THEN IntV(7) ELSE PyNone,
     comments |-> 1,
     video_duration |-> IF video THEN IntV(3) ELSE PyNone]

\* A photo post with a caption, the sc-th of n posts in reverse-chronological
\* order: the posts of the driver runs differ in their likes.
PlainPost(sc, likes, n) == Post(sc, likes, n - sc + 1, StrV("cap"), <<>>, FALSE, FALSE)

\* Mutant of the metadata dict: the counts of a photo post are written as 0.
custom_metadata_zero_counts(post) ==
    << <<"Date UTC", StrV(ToString(post.date_utc))>>,
       <<"Caption hashtags", ListV(post.caption_hashtags)>>,
       <<"Caption", PyStr(post.caption)>>,
       <<"Caption mentions", ListV(post.caption_mentions)>>,
       <<"Owner username", StrV(post.owner_username)>>,
       <<"Tagged users", ListV(post.tagged_users)>>,
       <<"Is pinned", BoolV(post.is_pinned)>>,
       <<"Likes count", IntV(post.likes)>>,
       <<"Video view count",
         IF post.video_view_count = PyNone THEN IntV(0) ELSE post.video_view_count>>,
       <<"Comments count", IntV(post.comments)>>,
       <<"Video duration", post.video_duration>> >>

(***************************************************************************)
(* save_custom_post_metadata: the metadata dict, as the ordered sequence   *)
(* of its (key, value) pairs (a Python dict keeps insertion order).        *)
(***************************************************************************)
custom_metadata(post) ==
    << <<"Date UTC", StrV(ToString(post.date_utc))>>,
       <<"Caption hashtags", ListV(post.caption_hashtags)>>,
       <<"Caption", PyStr(post.caption)>>,
       <<"Caption mentions", ListV(post.caption_mentions)>>,
       <<"Owner username", StrV(post.owner_username)>>,
       <<"Tagged users", ListV(post.tagged_users)>>,
       <<"Is pinned", BoolV(post.is_pinned)>>,
       <<"Likes count", IntV(post.likes)>>,
       <<"Video view count", post.video_view_count>>,
       <<"Comments count", IntV(post.comments)>>,
       <<"Video duration", post.video_duration>> >>

Keys(rec) == [i \in 1..Len(rec) |-> rec[i][1]]
HasKey(rec, k) == \E i \in 1..Len(rec) : rec[i][1] = k
\* dict.get(k): the value under k, None when the key is absent.
Get(rec, k) ==
    IF HasKey(rec, k) THEN rec[CHOOSE i \in 1..Len(rec) : rec[i][1] = k][2] ELSE PyNone

(***************************************************************************)
(* The working directory.  disk is the sequence of its entries in          *)
(* os.listdir() order; a directory entry holds its files in listdir order. *)
(***************************************************************************)
DirEntry(name, files) == [name |-> name, isdir |-> TRUE, files |-> files]
FileEntry(name) == [name |-> name, isdir |-> FALSE, files |-> <<>>]
File(name, content) == [name |-> name, content |-> content]

IndexOf(seq, name) ==
    IF \E i \in 1..Len(seq) : seq[i].name = name
    THEN CHOOSE i \in 1..Len(seq) : seq[i].name = name
    ELSE 0

\* os.makedirs(name=target_dir, exist_ok=True)
makedirs(d, target_dir) ==
    IF IndexOf(d, target_dir) = 0 THEN Append(d, DirEntry(target_dir, <<>>)) ELSE d

\* open(path, "w") and json.dump: creates the file or overwrites its content.
write_file(files, name, content) ==
    IF IndexOf(files, name) = 0
    THEN Append(files, File(name, content))
    ELSE [files EXCEPT ![IndexOf(files, name)].content = content]

save_custom_post_metadata(d, post, target_dir, file_name) ==
    LET metadata == custom_metadata(post)
        d1 == makedirs(d, target_dir)
        k == IndexOf(d1, target_dir)
    IN  [d1 EXCEPT ![k].files = write_file(@, file_name \o JSON_SUFFIX, metadata)]

\* What the external client's download_post leaves on disk when it succeeds
\* (filename_pattern = "{shortcode}", download_comments = True): the media file
\* and the comments file of the post, in the post's directory.
MEDIA == <<<<"media", StrV("bytes")>>>>
COMMENTS == <<<<"comments", ListV(<<>>)>>>>
super_download_post(d, post, target) ==
    LET dir == dirname_pattern(target, strftime(post.date_utc))
        d1 == makedirs(d, dir)
        k == IndexOf(d1, dir)
        sc == ShortcodeText(post.shortcode)
    IN  [d1 EXCEPT ![k].files =
            write_file(write_file(@, sc \o <<".", "j", "p", "g">>, MEDIA),
                       sc \o <<"_", "c", "o", "m", "m", "e", "n", "t", "s">> \o JSON_SUFFIX,
                       COMMENTS)]

\* Mutant of download_post: the metadata is saved before the external download.
download_post_metadata_first(d, post, target, ok) ==
    LET d1 == IF save_custom_metadata
              THEN save_custom_post_metadata(
                       d, post, dirname_pattern(target, strftime(post.date_utc)),
                       CUSTOM_METADATA \o <<"_">> \o ShortcodeText(post.shortcode))
              ELSE d
    IN  IF ok THEN super_download_post(d1, post, target) ELSE d1

\* download_post: ok is the outcome of the external client's download_post;
\* when it raises, the lines after it do not run.
download_post(d, post, target, ok) ==
    IF ~ok THEN d
    ELSE IF save_custom_metadata
    THEN save_custom_post_metadata(
             super_download_post(d, post, target), post,
             dirname_pattern(target, strftime(post.date_utc)),
             CUSTOM_METADATA \o <<"_">> \o ShortcodeText(post.shortcode))
    ELSE super_download_post(d, post, target)

(***************************************************************************)
(* convert_all_custom_metadata_to_csv.                                     *)
(***************************************************************************)
NoFile == [present |-> FALSE]
NoTable == [present |-> FALSE]

\* [d for d in os.listdir() if os.path.isdir(d) and d.endswith("_UTC")]
IsMetadataDir(e) == e.isdir /\ EndsWith(e.name, UTC_SUFFIX)
metadata_dirs(d) == SelectSeq(d, IsMetadataDir)

\* Mutant of the file filter: every .json file is taken.
IsMetadataFile_any_json(f) == EndsWith(f.name, JSON_SUFFIX)

\* f.endswith(".json") and f.startswith("custom_metadata")
IsMetadataFile(f) == EndsWith(f.name, JSON_SUFFIX) /\ StartsWith(f.name, CUSTOM_METADATA)

\* The nested comprehension: for d in metadata_dirs, for f in os.listdir(d).
\* A path is the pair (directory name, file name).
RECURSIVE metadata_files(_)
metadata_files(dirs) ==
    IF dirs = <<>> THEN <<>>
    ELSE LET e == Head(dirs)
             sel == SelectSeq(e.files, IsMetadataFile)
         IN  [i \in 1..Len(sel) |-> <<e.name, sel[i].name>>] \o metadata_files(Tail(dirs))

\* open(file) and json.load: the content stored under the path.
json_load(d, path) ==
    LET e == d[IndexOf(d, path[1])] IN e.files[IndexOf(e.files, path[2])].content

\* The loop that appends each loaded metadata to metadata_list.
metadata_list(d, files) == [i \in 1..Len(files) |-> json_load(d, files[i])]

\* pd.DataFrame(list of dicts): the columns are the union of the keys in
\* first-seen order; a row holds null where its dict lacks the key.
RECURSIVE UnionKeys(_, _)
UnionKeys(cols, ks) ==
    IF ks = <<>> THEN cols
    ELSE UnionKeys(IF \E i \in 1..Len(cols) : cols[i] = Head(ks)
                   THEN cols ELSE Append(cols, Head(ks)), Tail(ks))
RECURSIVE Columns(_, _)
Columns(cols, list) ==
    IF list = <<>> THEN cols ELSE Columns(UnionKeys(cols, Keys(Head(list))), Tail(list))
\* Mutant of the frame: an empty list gives a frame with a Caption column.
DataFrame_declared_columns(list) ==
    LET cols == IF list = <<>> THEN <<"Caption">> ELSE Columns(<<>>, list)
    IN  [present |-> TRUE, columns |-> cols,
         rows |-> [i \in 1..Len(list) |-> [c \in 1..Len(cols) |-> Get(list[i], cols[c])]]]

DataFrame(list) ==
    LET cols == Columns(<<>>, list)
    IN  [present |-> TRUE, columns |-> cols,
         rows |-> [i \in 1..Len(list) |-> [c \in 1..Len(cols) |-> Get(list[i], cols[c])]]]

HasColumn(df, col) == \E c \in 1..Len(df.columns) : df.columns[c] = col
ColumnIndex(df, col) == CHOOSE c \in 1..Len(df.columns) : df.columns[c] = col
\* df[col] = df[col].fillna(value), for a column df has.
fillna(df, col, value) ==
    LET k == ColumnIndex(df, col)
    IN  [df EXCEPT !.rows = [i \in 1..Len(df.rows) |->
            [df.rows[i] EXCEPT ![k] = IF @ = PyNone THEN value ELSE @]]]

\* The text of a value in a CSV field: a null is the empty field.
CsvField(v) ==
    CASE v.t = "none" -> ""
      [] v.t = "str" -> v.s
      [] v.t = "int" -> ToString(v.n)
      [] v.t = "bool" -> IF v.b THEN "True" ELSE "False"
      [] OTHER -> ToString(v.xs)
\* df.to_csv("metadata.csv", index=False): the header row and a row per table row.
to_csv(df) ==
    [present |-> TRUE, header |-> df.columns,
     rows |-> [i \in 1..Len(df.rows) |->
                  [c \in 1..Len(df.columns) |-> CsvField(df.rows[i][c])]]]

\* The whole function on working directory d with metadata.csv old:
\* what it raises, the table it returns and metadata.csv afterwards.
convert_all_custom_metadata_to_csv(d, old) ==
    LET files == metadata_files(metadata_dirs(d))
        metadata_df == DataFrame(metadata_list(d, files))
    IN  IF ~HasColumn(metadata_df, "Caption")
        THEN [err |-> "KeyError", table |-> NoTable, csv |-> old]
        ELSE LET filled == fillna(metadata_df, "Caption", StrV(""))
             IN  [err |-> "none", table |-> filled, csv |-> to_csv(filled)]

(***************************************************************************)
(* The drivers.                                                            *)
(***************************************************************************)
\* sorted(iterable, key=lambda post: post.likes, reverse=reverse): a stable
\* sort, also with reverse=True; x is placed behind every element that does
\* not come after it.
RECURSIVE insert_sorted(_, _, _)
insert_sorted(out, x, rev) ==
    IF out = <<>> THEN <<x>>
    ELSE IF (IF rev THEN Head(out).likes >= x.likes ELSE Head(out).likes <= x.likes)
         THEN <<Head(out)>> \o insert_sorted(Tail(out), x, rev)
         ELSE <<x>> \o out
\* Mutant of the sort: x is placed before the elements equal to it.
RECURSIVE insert_unstable(_, _, _)
insert_unstable(out, x, rev) ==
    IF out = <<>> THEN <<x>>
    ELSE IF (IF rev THEN Head(out).likes > x.likes ELSE Head(out).likes < x.likes)
         THEN <<Head(out)>> \o insert_unstable(Tail(out), x, rev)
         ELSE <<x>> \o out
RECURSIVE sort_into_unstable(_, _, _)
sort_into_unstable(out, seq, rev) ==
    IF seq = <<>> THEN out
    ELSE sort_into_unstable(insert_unstable(out, Head(seq), rev), Tail(seq), rev)
sorted_by_likes_unstable(seq, rev) == sort_into_unstable(<<>>, seq, rev)

RECURSIVE sort_into(_, _, _)
sort_into(out, seq, rev) ==
    IF seq = <<>> THEN out ELSE sort_into(insert_sorted(out, Head(seq), rev), Tail(seq), rev)
sorted_by_likes(seq, rev) == sort_into(<<>>, seq, rev)

\* seq[:lim]: everything when lim is None, else the first lim elements.
Slice(seq, lim) ==
    IF lim = PyNone THEN seq
    ELSE SubSeq(seq, 1, IF lim.n < Len(seq) THEN lim.n ELSE Len(seq))

\* sorted(profile.get_posts(), key=..., reverse=reverse)[:limit]
sorted_posts(seq, lim, rev) == Slice(sorted_by_likes(seq, rev), lim)

\* Mutants of the boundary check: an inclusive comparison, and a check for
\* None in place of the truth value.
BoundaryBreak_inclusive(lim, i) == Truthy(lim) /\ i + 1 >= lim.n
BoundaryBreak_not_none(lim, i) == lim # PyNone /\ i > lim.n

\* if limit and idx > limit: break
BoundaryBreak(lim, i) == Truthy(lim) /\ i > lim.n

\* Mutant of the loop: the exception of a post is caught and the loop goes on.
download_posts_loop_skip(ok, lim, i, n) ==
    IF BoundaryBreak(lim, i) \/ i + 1 >= n
    THEN [pc |-> "driver_done", err |-> "none", idx |-> i]
    ELSE [pc |-> "iter", err |-> "none", idx |-> i + 1]

\* One pass of the loop of download_posts over post number i (0-based) of n:
\* where the run stands afterwards.  An exception of download_post leaves the
\* loop, the function and the script; a break or the end of the posts ends
\* the driver.
download_posts_loop(ok, lim, i, n) ==
    IF ~ok THEN [pc |-> "failed", err |-> "DownloadError", idx |-> i]
    ELSE IF BoundaryBreak(lim, i) \/ i + 1 >= n
         THEN [pc |-> "driver_done", err |-> "none", idx |-> i]
         ELSE [pc |-> "iter", err |-> "none", idx |-> i + 1]

\* One pass of the loop of download_posts_sorted_by_likes over element i of n.
sorted_loop(ok, i, n) ==
    IF ~ok THEN [pc |-> "failed", err |-> "DownloadError", idx |-> i]
    ELSE IF i + 1 >= n
         THEN [pc |-> "driver_done", err |-> "none", idx |-> i]
         ELSE [pc |-> "sorted_iter", err |-> "none", idx |-> i + 1]

\* Mutant of the login: a rejected login is swallowed and the script goes on.
login_next_swallowed(answer) ==
    CASE answer = "two_factor" -> "two_factor"
      [] OTHER -> "logged_in"

\* Where the constructor's login() leaves the script for each answer of the
\* client: accepted, rejected (the exception is not caught), or two-factor
\* required (the prompt for the code).
login_next(answer) ==
    CASE answer = "accepted" -> "logged_in"
      [] answer = "two_factor" -> "two_factor"
      [] OTHER -> "failed"

\* Where two_factor_login leaves the script.
two_factor_next(accepted) == IF accepted THEN "logged_in" ELSE "failed"

\* __main__ calls the aggregator after the driver has returned.
aggregator_called == pc = "driver_done"

(***************************************************************************)
(* Actions.                                                                *)
(***************************************************************************)
Inputs == <<posts, limit, mode, reverse, save_custom_metadata, csv0>>
Files == <<disk, csv, table>>
Counters == <<loginCalls, twoFactorCalls, profileFetches, aggCalls>>

\* InstagramLoader(...): the constructor calls login().
login ==
    /\ pc = "start"
    /\ \E answer \in {"accepted", "rejected", "two_factor"} :
        /\ pc' = login_next(answer)
        /\ err' = IF login_next(answer) = "failed" THEN "BadCredentialsException" ELSE "none"
        /\ loggedIn' = (answer = "accepted")
    /\ loginCalls' = loginCalls + 1
    /\ UNCHANGED <<Inputs, Files, idx, queue, attempted, downloaded,
                   twoFactorCalls, profileFetches, aggCalls>>

\* The code read from the prompt is submitted once.
two_factor_login ==
    /\ pc = "two_factor"
    /\ \E accepted \in BOOLEAN :
        /\ pc' = two_factor_next(accepted)
        /\ err' = IF two_factor_next(accepted) = "failed"
                  THEN "BadCredentialsException" ELSE "none"
        /\ loggedIn' = accepted
    /\ twoFactorCalls' = twoFactorCalls + 1
    /\ UNCHANGED <<Inputs, Files, idx, queue, attempted, downloaded,
                   loginCalls, profileFetches, aggCalls>>

\* download_posts up to its loop: get_profile() and the first next() of the
\* enumeration.
download_posts ==
    /\ pc = "logged_in"
    /\ mode = "download"
    /\ profileFetches' = profileFetches + 1
    /\ \E found \in BOOLEAN :
        /\ pc' = IF ~found THEN "failed" ELSE IF posts = <<>> THEN "driver_done" ELSE "iter"
        /\ err' = IF found THEN "none" ELSE "ProfileNotExistsException"
    /\ idx' = 0
    /\ UNCHANGED <<Inputs, Files, queue, attempted, downloaded, loggedIn,
                   loginCalls, twoFactorCalls, aggCalls>>

\* One pass of the loop of download_posts.
download_posts_iter ==
    /\ pc = "iter"
    /\ \E ok \in BOOLEAN :
        LET post == posts[idx + 1]
            next == download_posts_loop(ok, limit, idx, Len(posts))
        IN  /\ disk' = download_post(disk, post, TARGET_USERNAME, ok)
            /\ attempted' = Append(attempted, post.shortcode)
            /\ downloaded' = IF ok THEN Append(downloaded, post.shortcode) ELSE downloaded
            /\ pc' = next.pc
            /\ err' = next.err
            /\ idx' = next.idx
    /\ UNCHANGED <<Inputs, csv, table, queue, loggedIn, Counters>>

\* download_posts_sorted_by_likes up to its loop: get_profile(), the full
\* enumeration, the sort and the slice.
download_posts_sorted_by_likes ==
    /\ pc = "logged_in"
    /\ mode = "sorted"
    /\ profileFetches' = profileFetches + 1
    /\ \E found \in BOOLEAN :
        /\ queue' = IF found THEN sorted_posts(posts, limit, reverse) ELSE <<>>
        /\ pc' = IF ~found THEN "failed"
                 ELSE IF queue' = <<>> THEN "driver_done" ELSE "sorted_iter"
        /\ err' = IF found THEN "none" ELSE "ProfileNotExistsException"
    /\ idx' = 0
    /\ UNCHANGED <<Inputs, Files, attempted, downloaded, loggedIn,
                   loginCalls, twoFactorCalls, aggCalls>>

\* One pass of the loop of download_posts_sorted_by_likes.
sorted_iter ==
    /\ pc = "sorted_iter"
    /\ \E ok \in BOOLEAN :
        LET post == queue[idx + 1]
            next == sorted_loop(ok, idx, Len(queue))
        IN  /\ disk' = download_post(disk, post, TARGET_USERNAME, ok)
            /\ attempted' = Append(attempted, post.shortcode)
            /\ downloaded' = IF ok THEN Append(downloaded, post.shortcode) ELSE downloaded
            /\ pc' = next.pc
            /\ err' = next.err
            /\ idx' = next.idx
    /\ UNCHANGED <<Inputs, csv, table, queue, loggedIn, Counters>>

\* The call of convert_all_custom_metadata_to_csv() that ends __main__.
aggregate ==
    /\ aggregator_called
    /\ LET r == convert_all_custom_metadata_to_csv(disk, csv)
       IN  /\ pc' = IF r.err = "none" THEN "done" ELSE "failed"
           /\ err' = r.err
           /\ table' = r.table
           /\ csv' = r.csv
    /\ aggCalls' = aggCalls + 1
    /\ UNCHANGED <<Inputs, disk, idx, queue, attempted, downloaded, loggedIn,
                   loginCalls, twoFactorCalls, profileFetches>>

Next ==
    \/ login
    \/ two_factor_login
    \/ download_posts
    \/ download_posts_iter
    \/ download_posts_sorted_by_likes
    \/ sorted_iter
    \/ aggregate

(***************************************************************************)
(* Initial states.                                                         *)
(***************************************************************************)
Limits == {PyNone} \cup {IntV(n) : n \in 0..MaxLimit}

\* The state of a fresh run in an empty working directory, before the inputs.
Fresh ==
    /\ pc = "start"
    /\ err = "none"
    /\ idx = 0
    /\ queue = <<>>
    /\ disk = <<>>
    /\ csv = NoFile
    /\ csv0 = NoFile
    /\ table = NoTable
    /\ attempted = <<>>
    /\ downloaded = <<>>
    /\ loggedIn = FALSE
    /\ loginCalls = 0
    /\ twoFactorCalls = 0
    /\ profileFetches = 0
    /\ aggCalls = 0

\* Profiles of up to MaxPosts photo posts with likes in 0..MaxLikes.
Profiles ==
    UNION { { [i \in 1..n |-> PlainPost(i, l[i], n)] : l \in [1..n -> 0..MaxLikes] }
            : n \in 0..MaxPosts }

Init ==
    /\ Fresh
    /\ posts \in Profiles
    /\ limit \in Limits
    /\ mode \in {"download", "sorted"}
    /\ reverse \in (IF mode = "sorted" THEN BOOLEAN ELSE {TRUE})
    /\ save_custom_metadata \in BOOLEAN

Spec == Init /\ [][Next]_vars

(***************************************************************************)
(* Properties of the script run (Spec).                                    *)
(***************************************************************************)
Range(seq) == {seq[i] : i \in 1..Len(seq)}
FirstShortcodes(k) == [i \in 1..k |-> posts[i].shortcode]
Min(a, b) == IF a < b THEN a ELSE b

\* The driver has returned: the script stands before, or went past, the
\* call of the aggregator.
DriverFinished == pc = "driver_done" \/ aggCalls > 0

\* A download of the external client has raised in this run.
DownloadFailed == Len(attempted) > Len(downloaded)

Selected ==
    IF Truthy(limit) THEN Min(Len(posts), limit.n + 2) ELSE Len(posts)

PostOf(sc) == posts[CHOOSE i \in 1..Len(posts) : posts[i].shortcode = sc]
MetadataName(sc) == CUSTOM_METADATA \o <<"_">> \o ShortcodeText(sc) \o JSON_SUFFIX

\* C3: every custom-metadata file on disk is the file of a post whose
\* external download succeeded (in that post's directory, with that post's
\* record), and no post whose external download failed has a metadata file.
C3_MetadataOnlyForDownloaded ==
    /\ \A e \in Range(disk) : \A f \in Range(e.files) :
          StartsWith(f.name, CUSTOM_METADATA) =>
              \E sc \in Range(downloaded) :
                  /\ f.name = MetadataName(sc)
                  /\ e.name = dirname_pattern(TARGET_USERNAME, strftime(PostOf(sc).date_utc))
                  /\ f.content = custom_metadata(PostOf(sc))
    /\ \A sc \in Range(attempted) \ Range(downloaded) :
          \A e \in Range(disk) : \A f \in Range(e.files) : f.name # MetadataName(sc)

\* C3 witness: a run that wrote two metadata files and then failed on a post.
C3_Witness ==
    /\ save_custom_metadata /\ DownloadFailed /\ Len(downloaded) = 2
    /\ \E e \in Range(disk) : \E f \in Range(e.files) : f.name = MetadataName(downloaded[2])

\* a comes before b in the stable descending sort by likes.
BeforeDesc(a, b) ==
    \/ PostOf(a).likes > PostOf(b).likes
    \/ PostOf(a).likes = PostOf(b).likes /\ a < b

\* C4: in downloadSortedByLikes(limit=L, descending=true) the posts
\* downloaded so far are, in order, a prefix of the stable descending sort by
\* likes (each comes before every post not downloaded before it; equal likes
\* keep the source order), never more than min(L, n) of them (n when L is
\* null), and exactly that many when the driver returns.
C4_SortedByLikes ==
    (mode = "sorted" /\ reverse) =>
        LET n == Len(posts)
            k == IF limit = PyNone THEN n ELSE Min(limit.n, n)
        IN  /\ Len(downloaded) <= k
            /\ \A i \in 1..Len(downloaded) :
                  /\ downloaded[i] \in 1..n
                  /\ \A s \in 1..n :
                        s \notin {downloaded[j] : j \in 1..i} => BeforeDesc(downloaded[i], s)
            /\ DriverFinished => Len(downloaded) = k

\* C4 witness: limit 2 of four posts, the two downloaded tied in likes and
\* not the first two of the source sequence.
C4_Witness ==
    /\ mode = "sorted" /\ reverse /\ DriverFinished
    /\ limit = IntV(2) /\ Len(posts) = 4 /\ Len(downloaded) = 2
    /\ PostOf(downloaded[1]).likes = PostOf(downloaded[2]).likes
    /\ downloaded[1] > 1

\* C8: no profile fetch and no download before the login has succeeded; a
\* rejected login or two-factor code is not retried and ends the run; the
\* aggregator is invoked at most once, and only when the driver has returned
\* with every download done; once the run has failed nothing is invoked and
\* the files written stay as they are.
C8_RunOrder ==
    /\ []((profileFetches > 0 \/ attempted # <<>>) => loggedIn)
    /\ [](loginCalls <= 1 /\ twoFactorCalls <= 1 /\ aggCalls <= 1)
    /\ [](err = "BadCredentialsException" =>
             /\ pc = "failed" /\ ~loggedIn
             /\ profileFetches = 0 /\ attempted = <<>> /\ aggCalls = 0)
    /\ [][aggCalls' # aggCalls =>
             /\ pc = "driver_done" /\ attempted = downloaded
             /\ profileFetches = 1]_vars
    /\ [](pc = "failed" /\ err \in {"ProfileNotExistsException", "DownloadError"}
             => aggCalls = 0 /\ csv = csv0)
    /\ [][pc = "failed" => UNCHANGED <<disk, csv, aggCalls>>]_vars

\* C8 witness: a run that logged in with a two-factor code, downloaded two
\* posts and aggregated them.
C8_Witness ==
    /\ pc = "done" /\ twoFactorCalls = 1 /\ loggedIn
    /\ Len(downloaded) = 2 /\ aggCalls = 1

RichPosts ==
    { Post(1, l, 1, c, h, pin, v) :
        l \in 0..MaxLikes, c \in {PyNone, StrV(""), StrV("hi")},
        h \in {<<>>, <<"tag">>}, pin \in BOOLEAN, v \in BOOLEAN }

InitRecord ==
    /\ Fresh
    /\ posts \in {<<p>> : p \in RichPosts}
    /\ limit = PyNone
    /\ mode \in {"download", "sorted"}
    /\ reverse = TRUE
    /\ save_custom_metadata \in BOOLEAN

SpecRecord == InitRecord /\ [][Next]_vars

\* The field labels of the metadata record, in order.
FieldLabels ==
    <<"Date UTC", "Caption hashtags", "Caption", "Caption mentions", "Owner username",
      "Tagged users", "Is pinned", "Likes count", "Video view count", "Comments count",
      "Video duration">>

\* The custom-metadata records on disk.
RecordsOnDisk ==
    {f.content : f \in UNION {{g \in Range(e.files) : StartsWith(g.name, CUSTOM_METADATA)}
                              : e \in Range(disk)}}

\* The value of column col in row i of the returned table.
Cell(i, col) == table.rows[i][CHOOSE c \in 1..Len(table.columns) : table.columns[c] = col]

\* C5, as claimed: once the post has been downloaded with custom metadata and
\* aggregated, a null caption gives a row whose Caption is the empty string,
\* and a null video view count gives a row whose Video view count is null.
C5_NullCaptionIsEmpty ==
    (pc = "done" /\ save_custom_metadata /\ Len(table.rows) = 1) =>
        /\ posts[1].caption = PyNone => Cell(1, "Caption") = StrV("")
        /\ posts[1].video_view_count = PyNone => Cell(1, "Video view count") = PyNone

\* C7, as claimed: the record built for a post has exactly 10 keys.
C7_TenKeys == \A rec \in RecordsOnDisk : Len(Keys(rec)) = 10

\* C7, amended: the record built for a post has exactly the 11 keys listed in
\* section 4.3, in that order, and its Video view count and Video duration
\* are null for a post that is not a video (the post's values otherwise).
C7_ElevenKeys ==
    \A rec \in RecordsOnDisk :
        /\ Keys(rec) = FieldLabels
        /\ Get(rec, "Video view count") = posts[1].video_view_count
        /\ Get(rec, "Video duration") = posts[1].video_duration
        /\ ~posts[1].is_video =>
              /\ Get(rec, "Video view count") = PyNone
              /\ Get(rec, "Video duration") = PyNone

\* C7 witness: the record of a photo post without caption is on disk.
C7_Witness ==
    /\ RecordsOnDisk # {}
    /\ ~posts[1].is_video /\ posts[1].caption = PyNone /\ posts[1].is_pinned

(***************************************************************************)
(* SpecAgg: the aggregator alone, called in a working directory of up to   *)
(* MaxDirs entries (directories or plain files) that hold up to MaxFiles   *)
(* files in all.                                                           *)
(***************************************************************************)
OLD_SUFFIX == <<"_", "U", "T", "C", "_", "o", "l", "d">>
EntryName(i, kind) ==
    <<"t", "_", "D", Digit(i)>> \o (IF kind = "plain_dir" THEN OLD_SUFFIX ELSE UTC_SUFFIX)

\* File j of directory i: a custom-metadata file, a comments file of the
\* client (no prefix) or a temporary file (no .json suffix).
FileName(j, kind) ==
    CASE kind = "metadata" -> CUSTOM_METADATA \o <<"_">> \o ShortcodeText(j) \o JSON_SUFFIX
      [] kind = "comments" ->
            ShortcodeText(j) \o <<"_", "c", "o", "m", "m", "e", "n", "t", "s">> \o JSON_SUFFIX
      [] OTHER -> CUSTOM_METADATA \o <<"_">> \o ShortcodeText(j) \o <<".", "t", "m", "p">>

\* The JSON document of file j of directory i: a metadata record, told apart
\* by its likes; every second one holds a null Caption.
Document(i, j) ==
    LET rec == custom_metadata(Post(j, 10 * i + j, i, StrV("cap"), <<>>, FALSE, j % 2 = 0))
    IN  IF (i + j) % 2 = 0 THEN [rec EXCEPT ![3] = <<"Caption", PyNone>>] ELSE rec

FileKinds == {"metadata", "comments", "temp"}
\* The listings of directory i that hold exactly k files.
FileLists(i, k) ==
    { [j \in 1..k |-> File(FileName(j, kind[j]), Document(i, j))] : kind \in [1..k -> FileKinds] }
\* The entries number i that hold exactly k files: a directory with or
\* without the suffix, or (k = 0) a plain file named like a metadata directory.
Entries(i, k) ==
    (IF k = 0 THEN {FileEntry(EntryName(i, "utc_file"))} ELSE {})
    \cup {DirEntry(EntryName(i, kind), fs) :
             kind \in {"utc_dir", "plain_dir"}, fs \in FileLists(i, k)}

\* The working directories of exactly n entries that hold exactly f files.
RECURSIVE Disks(_, _)
Disks(n, f) ==
    IF n = 0 THEN (IF f = 0 THEN {<<>>} ELSE {})
    ELSE UNION { {Append(d, e) : d \in Disks(n - 1, f - k), e \in Entries(n, k)} : k \in 0..f }

OLD_CSV == [present |-> TRUE, header |-> <<"old">>, rows |-> <<>>]

InitAgg ==
    /\ pc = "driver_done"
    /\ err = "none"
    /\ posts = <<>>
    /\ limit = PyNone
    /\ mode = "download"
    /\ reverse = TRUE
    /\ save_custom_metadata = TRUE
    /\ idx = 0
    /\ queue = <<>>
    /\ disk \in UNION {Disks(n, f) : n \in 0..MaxDirs, f \in 0..MaxFiles}
    /\ csv \in {NoFile, OLD_CSV}
    /\ csv0 = csv
    /\ table = NoTable
    /\ attempted = <<>>
    /\ downloaded = <<>>
    /\ loggedIn = TRUE
    /\ loginCalls = 1
    /\ twoFactorCalls = 0
    /\ profileFetches = 1
    /\ aggCalls = 0

SpecAgg == InitAgg /\ [][aggregate]_vars

\* The name ends with "_UTC"; starts with "custom_metadata"; ends with ".json".
NameEndsUTC(nm) ==
    LET n == Len(nm)
    IN  n >= 4 /\ nm[n - 3] = "_" /\ nm[n - 2] = "U" /\ nm[n - 1] = "T" /\ nm[n] = "C"
NameIsCustomMetadataJson(nm) ==
    LET n == Len(nm)
    IN  /\ n >= 15 /\ \A c \in 1..15 : nm[c] = CUSTOM_METADATA[c]
        /\ nm[n - 4] = "." /\ nm[n - 3] = "j" /\ nm[n - 2] = "s" /\ nm[n - 1] = "o" /\ nm[n] = "n"

\* The files the aggregation is to include, as (entry, file) positions.
Included ==
    {p \in UNION {{<<i, j>> : j \in 1..Len(disk[i].files)} : i \in 1..Len(disk)} :
        /\ disk[p[1]].isdir
        /\ NameEndsUTC(disk[p[1]].name)
        /\ NameIsCustomMetadataJson(disk[p[1]].files[p[2]].name)}
\* The place of an included file in directory-then-file order.
Rank(p) ==
    1 + Cardinality({q \in Included : q[1] < p[1] \/ (q[1] = p[1] /\ q[2] < p[2])})

\* C6: when aggregate returns, its table and metadata.csv have exactly one
\* row per file that lies in a directory of the working directory whose name
\* ends with "_UTC" and whose own name starts with "custom_metadata" and ends
\* with ".json", in directory-then-file order, each row holding that file's
\* record; no other file contributes a row.
C6_RowsAreIncludedFiles ==
    (aggCalls > 0 /\ pc = "done") =>
        /\ Len(table.rows) = Cardinality(Included)
        /\ csv.present /\ Len(csv.rows) = Cardinality(Included)
        /\ csv.header = FieldLabels
        /\ \A p \in Included :
              LET doc == disk[p[1]].files[p[2]].content
              IN  /\ Cell(Rank(p), "Likes count") = Get(doc, "Likes count")
                  /\ csv.rows[Rank(p)][8] = ToString(Get(doc, "Likes count").n)

\* C6 witness: one row, from a "_UTC" directory that also holds a .json
\* file without the prefix, beside a directory without the suffix that holds
\* a custom-metadata file.
C6_Witness ==
    /\ aggCalls > 0 /\ pc = "done" /\ Len(table.rows) = 1
    /\ \E i \in 1..Len(disk) :
          /\ disk[i].isdir /\ NameEndsUTC(disk[i].name) /\ Len(disk[i].files) = 2
          /\ ~NameIsCustomMetadataJson(disk[i].files[1].name)
          /\ EndsWith(disk[i].files[1].name, JSON_SUFFIX)
    /\ \E i \in 1..Len(disk) :
          /\ disk[i].isdir /\ ~NameEndsUTC(disk[i].name)
          /\ \E j \in 1..Len(disk[i].files) : NameIsCustomMetadataJson(disk[i].files[j].name)

\* C10: when no file is to be included, aggregate ends in the KeyError of
\* the Caption step, returns no table and leaves metadata.csv as it was
\* (absent, or with its old content); it fails in no other case.
C10_NoFilesIsAnError ==
    aggCalls > 0 =>
        /\ Included = {} =>
              /\ pc = "failed" /\ err = "KeyError"
              /\ table = NoTable /\ csv = csv0
        /\ pc = "failed" => Included = {}

\* C10 witness: a "_UTC" directory without any metadata file, an old
\* metadata.csv, and the aggregation failed.
C10_Witness ==
    /\ aggCalls > 0 /\ pc = "failed" /\ csv0 = OLD_CSV
    /\ \E i \in 1..Len(disk) :
          disk[i].isdir /\ NameEndsUTC(disk[i].name) /\ Len(disk[i].files) = 2

====
